---- MODULE Spec2Model ----
(***************************************************************************)
(* Authentication / session lifecycle of the ToS Dumbifier application.    *)
(*                                                                         *)
(*   server side : middleware/auth.js + models/User.js (src/unnamed/       *)
(*                 part_000) and routes/auth.js                            *)
(*   client side : context/AuthContext.jsx (src/unnamed/part_001)          *)
(*                                                                         *)
(* Time is counted in days.  A JWT "string" is modelled by the record of   *)
(* what it carries: the secret it was signed with, the userId of its       *)
(* payload and its exp claim.  A stored password is a record that tells a  *)
(* bcrypt hash (with its salt) from a plaintext.                           *)
(***************************************************************************)
EXTENDS Integers, Sequences, FiniteSets, TLC

VARIABLES
    users,      \* IdentityStore: sequence of User documents, _id = index
    now,        \* server clock (days)
    ticks,      \* how many times the clock has advanced
    last,       \* the last server request handled, with its outcome
    registered, \* history: <<email, password>> of every register answered 201
    regs,       \* POST /register handlers running step by step, and how far each is
    state,      \* client: the reducer state of AuthProvider
    ls,         \* client: localStorage keys 'token' and 'refreshToken'
    view,       \* client: the state of the last render (what login/logout/... close over)
    icpt,       \* client: the state the installed axios interceptors close over
    reqs,       \* client: the axios requests in flight, by slot, with their progress
    settled,    \* client: the requests the last step settled, in order
    issued,     \* client: how many axios requests were issued so far
    boot,       \* client: whether the mount effect checkAuthStatus() has run
    quota       \* client: how many axios requests a behaviour may issue

serverVars == <<users, now, ticks, last, registered, regs>>
clientVars == <<state, ls, view, icpt, reqs, settled, issued, boot, quota>>
vars == <<users, now, ticks, last, registered, regs, state, ls, view, icpt, reqs, settled,
          issued, boot, quota>>

-----------------------------------------------------------------------------
(* Configuration and bounds *)

\* '7d', the default of JWT_EXPIRES_IN
AccessLifetime == 7
\* '30d'
RefreshLifetime == 30
\* password.length < 6
MinPasswordLength == 6
\* the clock advances at most this many times
MaxTicks == 1
\* the client issues at most this many axios requests
MaxReqs == 3
MaxSessionReqs == 4
HistoryLimit == 50
MaxDocs == 53

JWT_SECRET == "JWT_SECRET"
JWT_REFRESH_SECRET == "JWT_REFRESH_SECRET"
OtherSecret == "other-secret"

TickSteps == {AccessLifetime, RefreshLifetime}

-----------------------------------------------------------------------------
(* Values *)

\* a well-formed JWT
Tok(secret, userId, exp) == [secret |-> secret, userId |-> userId, exp |-> exp]
\* a string that is no JWT at all, such as "abc"
Garbage == [secret |-> "<malformed>", userId |-> 0, exp |-> 0]
\* the empty string, JS undefined and JS null, where a token is expected
EmptyString == [secret |-> "<empty-string>", userId |-> 0, exp |-> 0]
Undefined == [secret |-> "<undefined>", userId |-> 0, exp |-> 0]
NullToken == [secret |-> "<null>", userId |-> 0, exp |-> 0]

\* the Authorization header: absent, or the string scheme + " " + rest joined by " "
NoHeader == [present |-> FALSE, scheme |-> "", rest |-> <<>>]
Header(scheme, rest) == [present |-> TRUE, scheme |-> scheme, rest |-> rest]

\* a password value: plaintext, or the bcrypt hash of a plaintext under a salt
Plain(p) == [alg |-> "plain", salt |-> 0, text |-> p]

NoUser == [id |-> 0]

-----------------------------------------------------------------------------
(* models/User.js *)

\* bcrypt.hash(password, salt): one-way and collision free
bcryptHash(p, salt) == [alg |-> "bcrypt", salt |-> salt, text |-> p]

\* bcrypt.compare(candidate, hash): re-hash the candidate under the hash's salt
bcryptCompare(candidate, hash) ==
    /\ hash.alg = "bcrypt"
    /\ bcryptHash(candidate, hash.salt) = hash

\* schema option lowercase: true, and email.toLowerCase() in findByEmail
toLowerCase(email) == IF email = "A@B.com" THEN "a@b.com" ELSE email

\* schema option match: the e-mail regular expression
matchesEmail(email) == email \in {"a@b.com", "c@d.com", "A@B.com"}

\* the pre('save') hook that keeps the plaintext (no hashing)
preSave_NoHash(doc, isModifiedPassword, salt) == doc

\* userSchema.pre('save'): hash the password only if it has been modified
preSave(doc, isModifiedPassword, salt) ==
    IF ~isModifiedPassword THEN doc
    ELSE [doc EXCEPT !.password = bcryptHash(doc.password.text, salt)]

\* a second hook that leaves the document as it is
preSaveUpdatedAt_Skipped(doc) == doc

\* userSchema.pre('save'), second hook: this.updatedAt = Date.now()
preSaveUpdatedAt(doc) == [doc EXCEPT !.updatedAt = now]

\* comparePassword that accepts every candidate
comparePassword_Always(user, candidatePassword) == TRUE

\* userSchema.methods.comparePassword
comparePassword(user, candidatePassword) ==
    bcryptCompare(candidatePassword, user.password)

\* userSchema.statics.findByEmail: the document or NoUser (null)
findByEmail(email) ==
    IF \E i \in 1..Len(users) : users[i].email = toLowerCase(email)
    THEN users[CHOOSE i \in 1..Len(users) : users[i].email = toLowerCase(email)]
    ELSE NoUser

\* User.findById
findById(id) == IF id \in 1..Len(users) THEN users[id] ELSE NoUser

\* a projection that drops nothing
selectWithoutPassword_Everything(user) == user

\* .select('-password'): the document without its password field
selectWithoutPassword(user) ==
    IF user = NoUser THEN NoUser
    ELSE [f \in DOMAIN user \ {"password"} |-> user[f]]

\* new User({email, password, name}): schema setters applied, _id assigned
newUser(email, password, name) ==
    [id |-> Len(users) + 1, email |-> toLowerCase(email),
     password |-> Plain(password), name |-> name, lastLoginAt |-> -1,
     updatedAt |-> now,
     documentHistory |-> <<>>, preferences |-> [saveHistory |-> TRUE]]

\* a history that keeps its oldest entries
slice_Oldest(history, n) == SubSeq(history, 1, n)

\* Array.prototype.slice(-n): the last n elements, all of them when there are fewer
slice(history, n) ==
    SubSeq(history, (IF Len(history) > n THEN Len(history) - n ELSE 0) + 1, Len(history))

\* userSchema.methods.addDocumentToHistory, up to return this.save()
addDocumentToHistory(user, documentData) ==
    IF user.preferences.saveHistory
    THEN LET pushed == Append(user.documentHistory, documentData) IN
         [user EXCEPT !.documentHistory =
                         IF Len(pushed) > HistoryLimit THEN slice(pushed, HistoryLimit)
                         ELSE pushed]
    ELSE user

-----------------------------------------------------------------------------
(* middleware/auth.js: token issue and verification *)

\* an access token that does not carry the subject it is issued for
generateToken_Anonymous(userId) == Tok(JWT_SECRET, 0, now + AccessLifetime)

\* generateToken(userId)
generateToken(userId) == Tok(JWT_SECRET, userId, now + AccessLifetime)

\* a refresh token that does not carry the subject it is issued for
generateRefreshToken_Anonymous(userId) == Tok(JWT_REFRESH_SECRET, 0, now + RefreshLifetime)

\* generateRefreshToken(userId)
generateRefreshToken(userId) == Tok(JWT_REFRESH_SECRET, userId, now + RefreshLifetime)

VerifyOk(userId) == [threw |-> FALSE, name |-> "", userId |-> userId]
Threw(name) == [threw |-> TRUE, name |-> name, userId |-> 0]

\* jwt.verify that looks at exp before it looks at the signature
jwtVerify_ExpiryFirst(token, secret) ==
    IF token \in {Undefined, NullToken, EmptyString, Garbage}
    THEN Threw("JsonWebTokenError")
    ELSE IF now >= token.exp THEN Threw("TokenExpiredError")
    ELSE IF token.secret # secret THEN Threw("JsonWebTokenError")
    ELSE VerifyOk(token.userId)

\* jwt.verify that does not check the signature
jwtVerify_AnySecret(token, secret) ==
    IF token \in {Undefined, NullToken, EmptyString, Garbage}
    THEN Threw("JsonWebTokenError")
    ELSE IF now >= token.exp THEN Threw("TokenExpiredError")
    ELSE VerifyOk(token.userId)

\* jwt.verify(token, secret): malformed or wrongly signed -> JsonWebTokenError,
\* then exp reached -> TokenExpiredError, else the payload
jwtVerify(token, secret) ==
    IF token \in {Undefined, NullToken, EmptyString, Garbage}
    THEN Threw("JsonWebTokenError")
    ELSE IF token.secret # secret THEN Threw("JsonWebTokenError")
    ELSE IF now >= token.exp THEN Threw("TokenExpiredError")
    ELSE VerifyOk(token.userId)

\* authHeader && authHeader.split(' ')[1]
ExtractToken(authHeader) ==
    IF ~authHeader.present THEN Undefined
    ELSE IF authHeader.scheme = "" /\ authHeader.rest = <<>> THEN EmptyString
    ELSE IF Len(authHeader.rest) >= 1 THEN authHeader.rest[1]
    ELSE Undefined

\* a presence test that only recognises null
IsFalsy_OnlyNull(token) == token = NullToken

\* !token
IsFalsy(token) == token \in {Undefined, NullToken, EmptyString}

-----------------------------------------------------------------------------
(* What a handled request leaves behind: the request and its outcome *)

NoBody == [email |-> "", password |-> "", confirmPassword |-> "", name |-> "",
           refreshToken |-> Undefined]

Outcome(op, hdr, body, fault) ==
    [op |-> op, hdr |-> hdr, body |-> body, fault |-> fault,
     at |-> now,             \* the clock when the request was handled
     nUsers |-> Len(users),  \* the size of the store when it was handled
     status |-> 0, error |-> "", message |-> "",
     responses |-> 0,        \* res.json calls
     nextCalls |-> 0,        \* next() calls
     lookups |-> 0,          \* IdentityStore queries issued
     reqUser |-> NoUser,     \* req.user
     user |-> NoUser,        \* the user object of the response body
     token |-> NullToken, refreshToken |-> NullToken]

\* res.status(status).json({message, error})
Respond(o, status, error, message) ==
    [o EXCEPT !.status = status, !.error = error, !.message = message,
              !.responses = @ + 1]

-----------------------------------------------------------------------------
(* middleware/auth.js: authenticateToken and optionalAuth *)

\* a catch block that reports every exception as an invalid token
authCatch_AllInvalid(o, errorName) == Respond(o, 403, "INVALID_TOKEN", "Invalid token")

\* the ways User.findById can reject, and the error each throws
LookupFaults == {"findById", "findByIdCast"}
thrown(fault) ==
    IF fault = "findByIdCast" THEN [name |-> "CastError", code |-> 0]
    ELSE [name |-> "MongoNetworkError", code |-> 0]

\* a catch block that answers with the name of what it caught
authCatch_EchoesName(o, errorName) ==
    Respond(o, 500, errorName, "Server error during authentication")

\* a catch block that lets the request through, as optionalAuth does
authCatch_Forwards(o, errorName) == [o EXCEPT !.nextCalls = @ + 1]

\* catch (error) of authenticateToken: discriminates on error.name
authCatch(o, errorName) ==
    IF errorName = "JsonWebTokenError"
    THEN Respond(o, 403, "INVALID_TOKEN", "Invalid token")
    ELSE IF errorName = "TokenExpiredError"
    THEN Respond(o, 403, "TOKEN_EXPIRED", "Token expired")
    ELSE Respond(o, 500, "AUTH_SERVER_ERROR", "Server error during authentication")

\* the success path that hands the whole document over and answers as well
authAttach_Unsanitized(o, user) ==
    Respond([o EXCEPT !.reqUser = user, !.nextCalls = @ + 1], 200, "", "")

\* req.user = user; next()   (user was read with .select('-password'))
authAttach(o, user) ==
    [o EXCEPT !.reqUser = selectWithoutPassword(user), !.nextCalls = @ + 1]

\* authenticateToken(req, res, next); fault: User.findById rejects
authenticateToken(o) ==
    LET token == ExtractToken(o.hdr) IN
    IF IsFalsy(token)
    THEN Respond(o, 401, "NO_TOKEN", "Access token is required")
    ELSE LET decoded == jwtVerify(token, JWT_SECRET) IN
         IF decoded.threw THEN authCatch(o, decoded.name)
         ELSE LET o1 == [o EXCEPT !.lookups = @ + 1]
                  user == findById(decoded.userId) IN
              IF o.fault \in LookupFaults THEN authCatch(o1, thrown(o.fault).name)
              ELSE IF user = NoUser
              THEN Respond(o1, 401, "INVALID_USER", "User not found")
              ELSE authAttach(o1, user)

\* an optional gate that answers 403 when verification throws
optionalCatch_Rejects(o) == Respond(o, 403, "INVALID_TOKEN", "Invalid token")

\* catch (error) of optionalAuth: continue without user
optionalCatch(o) == [o EXCEPT !.nextCalls = @ + 1]

\* optionalAuth(req, res, next)
optionalAuth(o) ==
    LET token == ExtractToken(o.hdr) IN
    IF IsFalsy(token) THEN [o EXCEPT !.nextCalls = @ + 1]
    ELSE LET decoded == jwtVerify(token, JWT_SECRET) IN
         IF decoded.threw THEN optionalCatch(o)
         ELSE LET o1 == [o EXCEPT !.lookups = @ + 1]
                  user == findById(decoded.userId) IN
              IF o.fault = "findById" THEN optionalCatch(o1)
              ELSE [o1 EXCEPT !.reqUser = selectWithoutPassword(user),
                              !.nextCalls = @ + 1]

-----------------------------------------------------------------------------
(* routes/auth.js.  A handler returns its outcome and the store it leaves. *)

Result(o, store) == [o |-> o, users |-> store]

\* document.save(): run the pre('save') hooks, then insert or replace by _id
save(store, doc, isModifiedPassword, salt) ==
    LET d == preSaveUpdatedAt(preSave(doc, isModifiedPassword, salt)) IN
    IF d.id \in 1..Len(store) THEN [store EXCEPT ![d.id] = d]
    ELSE Append(store, d)

\* a catch block that does not look at error.code
registerCatch_Generic(o, errorCode) ==
    Respond(o, 500, "REGISTRATION_ERROR", "Server error during registration")

\* catch (error) of POST /register
registerCatch(o, errorCode) ==
    IF errorCode = 11000
    THEN Respond(o, 400, "DUPLICATE_EMAIL", "Email already exists")
    ELSE Respond(o, 500, "REGISTRATION_ERROR", "Server error during registration")

\* a validation that looks at the length before it compares the two passwords
registerValidation_LengthFirst(o) ==
    IF o.body.email = "" \/ o.body.password = ""
    THEN Respond(o, 400, "MISSING_FIELDS", "Email and password are required")
    ELSE IF Len(o.body.password) < MinPasswordLength
    THEN Respond(o, 400, "PASSWORD_TOO_SHORT", "Password must be at least 6 characters long")
    ELSE IF o.body.password # o.body.confirmPassword
    THEN Respond(o, 400, "PASSWORD_MISMATCH", "Passwords do not match")
    ELSE o

\* the three checks of POST /register that need no store: the outcome is
\* answered by the first that fails, and unanswered when all pass
registerValidation(o) ==
    IF o.body.email = "" \/ o.body.password = ""
    THEN Respond(o, 400, "MISSING_FIELDS", "Email and password are required")
    ELSE IF o.body.password # o.body.confirmPassword
    THEN Respond(o, 400, "PASSWORD_MISMATCH", "Passwords do not match")
    ELSE IF Len(o.body.password) < MinPasswordLength
    THEN Respond(o, 400, "PASSWORD_TOO_SHORT", "Password must be at least 6 characters long")
    ELSE o

\* POST /register
register(o, salt) ==
    LET email == o.body.email
        password == o.body.password
    IN
    IF registerValidation(o).responses = 1
    THEN Result(registerValidation(o), users)
    ELSE LET o1 == [o EXCEPT !.lookups = @ + 1] IN
    IF o.fault = "findByEmail" THEN Result(registerCatch(o1, 0), users)
    ELSE IF findByEmail(email) # NoUser
    THEN Result(Respond(o1, 400, "USER_EXISTS", "User with this email already exists"), users)
    ELSE LET user == newUser(email, password, o.body.name) IN
    \* await user.save(): schema validation (match), then the hooks and the insert
    IF o.fault = "save1" \/ ~matchesEmail(user.email) THEN Result(registerCatch(o1, 0), users)
    ELSE LET store1 == save(users, user, TRUE, salt)
             saved == store1[user.id]
             token == generateToken(saved.id)
             refreshToken == generateRefreshToken(saved.id)
             stamped == [saved EXCEPT !.lastLoginAt = now]
         IN
    IF o.fault = "save2" THEN Result(registerCatch(o1, 0), store1)
    ELSE LET store2 == save(store1, stamped, FALSE, salt) IN
         Result([Respond(o1, 201, "", "User registered successfully")
                   EXCEPT !.user = [id |-> stamped.id, email |-> stamped.email,
                                    name |-> stamped.name],
                          !.token = token, !.refreshToken = refreshToken],
                store2)

\* a login rejection that tells the caller the email is unknown
loginNoUser_Reveals(o) == Respond(o, 404, "USER_NOT_FOUND", "No account with this email")

\* if (!user) return res.status(401)...
loginNoUser(o) == Respond(o, 401, "INVALID_CREDENTIALS", "Invalid email or password")

\* if (!isPasswordValid) return res.status(401)...
loginBadPassword(o) == Respond(o, 401, "INVALID_CREDENTIALS", "Invalid email or password")

\* the POST /register handlers that can run at the same time
Handlers == {1, 2}

\* a handler that has not been called
IdleHandler == [pc |-> "idle"]

\* POST /register up to its first await: the validation, then User.findByEmail
\* is sent
registerBegin(o) ==
    IF registerValidation(o).responses = 1
    THEN [pc |-> "done", o |-> registerValidation(o)]
    ELSE [pc |-> "lookup", o |-> [o EXCEPT !.lookups = @ + 1]]

\* findByEmail has answered: reject an existing user, else new User(...) and
\* user.save() is sent
registerLookup(r) ==
    IF findByEmail(r.o.body.email) # NoUser
    THEN [pc |-> "done",
          o |-> Respond(r.o, 400, "USER_EXISTS", "User with this email already exists")]
    ELSE [r EXCEPT !.pc = "insert"]

\* schema option unique: true: the index refuses a second document with the
\* same (lower-cased) email
violatesUniqueEmail(store, doc) == \E i \in 1..Len(store) : store[i].email = doc.email

\* the insert of user.save() reaches the store: a duplicate key throws with
\* code 11000 into the catch block, else the hashed document is stored
registerInsert(r, salt) ==
    LET user == newUser(r.o.body.email, r.o.body.password, r.o.body.name) IN
    IF violatesUniqueEmail(users, user)
    THEN Result([pc |-> "done", o |-> registerCatch(r.o, 11000)], users)
    ELSE Result([pc |-> "stamp", o |-> r.o, id |-> user.id],
                save(users, user, TRUE, salt))

\* the tokens, user.lastLoginAt = new Date(), the second save and the 201
registerStamp(r, salt) ==
    LET stamped == [users[r.id] EXCEPT !.lastLoginAt = now] IN
    Result([pc |-> "done",
            o |-> [Respond(r.o, 201, "", "User registered successfully")
                     EXCEPT !.user = [id |-> stamped.id, email |-> stamped.email,
                                      name |-> stamped.name],
                            !.token = generateToken(stamped.id),
                            !.refreshToken = generateRefreshToken(stamped.id)]],
           save(users, stamped, FALSE, salt))

\* POST /login
login(o) ==
    LET email == o.body.email
        password == o.body.password
    IN
    IF email = "" \/ password = ""
    THEN Result(Respond(o, 400, "MISSING_FIELDS", "Email and password are required"), users)
    ELSE LET o1 == [o EXCEPT !.lookups = @ + 1]
             user == findByEmail(email) IN
    IF o.fault = "findByEmail"
    THEN Result(Respond(o1, 500, "LOGIN_ERROR", "Server error during login"), users)
    ELSE IF user = NoUser
    THEN Result(loginNoUser(o1), users)
    ELSE IF ~comparePassword(user, password)
    THEN Result(loginBadPassword(o1), users)
    ELSE LET token == generateToken(user.id)
             refreshToken == generateRefreshToken(user.id)
             stamped == [user EXCEPT !.lastLoginAt = now]
         IN
    IF o.fault = "save"
    THEN Result(Respond(o1, 500, "LOGIN_ERROR", "Server error during login"), users)
    ELSE Result([Respond(o1, 200, "", "Login successful")
                   EXCEPT !.user = [id |-> stamped.id, email |-> stamped.email,
                                    name |-> stamped.name,
                                    lastLoginAt |-> stamped.lastLoginAt],
                          !.token = token, !.refreshToken = refreshToken],
                save(users, stamped, FALSE, 0))

\* GET /me, behind authenticateToken
getMe(o) ==
    LET m == authenticateToken(o) IN
    IF m.nextCalls = 0 THEN m
    ELSE [Respond(m, 200, "", "")
            EXCEPT !.user = [id |-> m.reqUser.id, email |-> m.reqUser.email,
                             name |-> m.reqUser.name,
                             lastLoginAt |-> m.reqUser.lastLoginAt]]

\* a logout route mounted without the middleware
postLogout_Unguarded(o) == Respond(o, 200, "", "Logout successful")

\* POST /logout, behind authenticateToken: no server state is touched
postLogout(o) ==
    LET m == authenticateToken(o) IN
    IF m.nextCalls = 0 THEN m
    ELSE Respond(m, 200, "", "Logout successful")

\* a refresh endpoint that rotates: it also hands out a new refresh token
refresh_Rotating(o) ==
    LET refreshToken == o.body.refreshToken IN
    IF IsFalsy(refreshToken)
    THEN Respond(o, 401, "NO_REFRESH_TOKEN", "Refresh token is required")
    ELSE LET decoded == jwtVerify(refreshToken, JWT_REFRESH_SECRET) IN
         IF decoded.threw
         THEN Respond(o, 403, "INVALID_REFRESH_TOKEN", "Invalid refresh token")
         ELSE [Respond(o, 200, "", "") EXCEPT !.token = generateToken(decoded.userId),
                                              !.refreshToken =
                                                  generateRefreshToken(decoded.userId)]

\* a refresh endpoint that tells an expired token from an invalid one
refresh_ExpiredDistinct(o) ==
    LET refreshToken == o.body.refreshToken IN
    IF IsFalsy(refreshToken)
    THEN Respond(o, 401, "NO_REFRESH_TOKEN", "Refresh token is required")
    ELSE LET decoded == jwtVerify(refreshToken, JWT_REFRESH_SECRET) IN
         IF decoded.threw
         THEN IF decoded.name = "TokenExpiredError"
              THEN Respond(o, 403, "REFRESH_TOKEN_EXPIRED", "Refresh token expired")
              ELSE Respond(o, 403, "INVALID_REFRESH_TOKEN", "Invalid refresh token")
         ELSE [Respond(o, 200, "", "") EXCEPT !.token = generateToken(decoded.userId)]

\* POST /refresh
refresh(o) ==
    LET refreshToken == o.body.refreshToken IN
    IF IsFalsy(refreshToken)
    THEN Respond(o, 401, "NO_REFRESH_TOKEN", "Refresh token is required")
    ELSE LET decoded == jwtVerify(refreshToken, JWT_REFRESH_SECRET) IN
         IF decoded.threw
         THEN Respond(o, 403, "INVALID_REFRESH_TOKEN", "Invalid refresh token")
         ELSE [Respond(o, 200, "", "") EXCEPT !.token = generateToken(decoded.userId)]

-----------------------------------------------------------------------------
(* context/AuthContext.jsx: the reducer *)

\* initialState, given what localStorage holds
initialState(storage) ==
    [user |-> NoUser, token |-> storage.token, refreshToken |-> storage.refreshToken,
     isAuthenticated |-> FALSE, isLoading |-> TRUE, error |-> ""]

NoStorage == [token |-> NullToken, refreshToken |-> NullToken]

\* an update that replaces the user object instead of merging into it
Spread_Replace(a, b) == b

\* { ...a, ...b } on user objects; spreading null contributes nothing
Spread(a, b) ==
    IF a = NoUser THEN b
    ELSE [f \in DOMAIN a \cup DOMAIN b |-> IF f \in DOMAIN b THEN b[f] ELSE a[f]]

Action(type, payload) == [type |-> type, payload |-> payload]

\* authReducer(state, action)
authReducer(st, action) ==
    CASE action.type = "AUTH_START" ->
            [st EXCEPT !.isLoading = TRUE, !.error = ""]
      [] action.type = "AUTH_SUCCESS" ->
            [st EXCEPT !.user = action.payload.user,
                       !.token = action.payload.token,
                       !.refreshToken = action.payload.refreshToken,
                       !.isAuthenticated = TRUE, !.isLoading = FALSE, !.error = ""]
      [] action.type = "AUTH_FAILURE" ->
            [st EXCEPT !.user = NoUser, !.token = NullToken, !.refreshToken = NullToken,
                       !.isAuthenticated = FALSE, !.isLoading = FALSE,
                       !.error = action.payload]
      [] action.type = "LOGOUT" ->
            [st EXCEPT !.user = NoUser, !.token = NullToken, !.refreshToken = NullToken,
                       !.isAuthenticated = FALSE, !.isLoading = FALSE, !.error = ""]
      [] action.type = "SET_LOADING" ->
            [st EXCEPT !.isLoading = action.payload]
      [] action.type = "CLEAR_ERROR" ->
            [st EXCEPT !.error = ""]
      [] action.type = "UPDATE_USER" ->
            [st EXCEPT !.user = Spread(st.user, action.payload)]
      [] OTHER -> st

\* a slot with no request in flight
FreeSlot == [phase |-> "free"]
Slots == 1..MaxSessionReqs

-----------------------------------------------------------------------------
(* Requests the server is sent *)

Emails == {"", "a@b.com", "A@B.com", "c@d.com", "nobody"}
Passwords == {"", "short", "secret1", "wrong12"}
Salts == {1}

\* user ids a token may name: the two that can exist and one that never does
TokenSubjects == {1, 2, 3}

\* tokens in circulation: issued at day 0 under either secret, the same payload
\* signed by a third party, and a string that is no JWT
RequestTokens ==
    {Tok(JWT_SECRET, u, AccessLifetime) : u \in TokenSubjects}
    \cup {Tok(JWT_REFRESH_SECRET, u, RefreshLifetime) : u \in TokenSubjects}
    \cup {Tok(OtherSecret, u, AccessLifetime) : u \in TokenSubjects}
    \cup {Tok(OtherSecret, u, RefreshLifetime) : u \in TokenSubjects}
    \cup {Garbage}

\* what a body may hold as refreshToken: nothing, null, "", or a token
RefreshBodies == RequestTokens \cup {Undefined, NullToken, EmptyString}

Headers ==
    {NoHeader, Header("", <<>>), Header("Bearer", <<>>)}
    \cup {Header("Bearer", <<t>>) : t \in RequestTokens}
    \cup {Header("Basic", <<t>>) : t \in RequestTokens}
    \cup {Header("Bearer", <<EmptyString, t>>) : t \in {Garbage}}

-----------------------------------------------------------------------------
(* routes/user.js: the one protected route the client context calls *)

\* PUT /profile, behind authenticateToken
putProfile(o) ==
    LET m == authenticateToken(o) IN
    IF m.nextCalls = 0 THEN Result(m, users)
    ELSE LET user == findById(m.reqUser.id)
             named == [user EXCEPT !.name = o.body.name]
             \* if (preferences) user.preferences = { ...user.preferences, ...preferences }
             renamed == IF "preferences" \in DOMAIN o.body
                        THEN [named EXCEPT !.preferences = o.body.preferences]
                        ELSE named
         IN Result([Respond(m, 200, "", "Profile updated successfully")
                      EXCEPT !.user = [id |-> renamed.id, email |-> renamed.email,
                                       name |-> renamed.name]],
                   save(users, renamed, FALSE, 0))

\* POST /document-history, behind authenticateToken: the answer reads the _id
\* of the last entry of the history, which throws when there is none
postDocumentHistory(o) ==
    LET m == authenticateToken(o) IN
    IF m.nextCalls = 0 THEN Result(m, users)
    ELSE LET user == addDocumentToHistory(findById(m.reqUser.id), o.body.document)
             store == save(users, user, FALSE, 0)
         IN IF user.documentHistory = <<>>
            THEN Result(Respond(m, 500, "DOCUMENT_HISTORY_ERROR",
                                "Server error adding document to history"), store)
            ELSE Result(Respond(m, 200, "", "Document added to history successfully"),
                        store)

-----------------------------------------------------------------------------
(* Server actions *)

Tick(d) ==
    /\ ticks < MaxTicks
    /\ now' = now + d
    /\ ticks' = ticks + 1
    /\ settled' = <<>>
    /\ UNCHANGED <<users, last, registered, regs, state, ls, view, icpt, reqs, issued, boot, quota>>

AuthenticateTokenReq(hdr, fault) ==
    /\ last' = authenticateToken(Outcome("authenticateToken", hdr, NoBody, fault))
    /\ UNCHANGED <<users, now, ticks, registered, regs, clientVars>>

OptionalAuthReq(hdr, fault) ==
    /\ last' = optionalAuth(Outcome("optionalAuth", hdr, NoBody, fault))
    /\ UNCHANGED <<users, now, ticks, registered, regs, clientVars>>

RegisterReq(email, password, confirmPassword, name, salt, fault) ==
    LET body == [NoBody EXCEPT !.email = email, !.password = password,
                               !.confirmPassword = confirmPassword, !.name = name]
        r == register(Outcome("register", NoHeader, body, fault), salt)
    IN /\ last' = r.o
       /\ users' = r.users
       /\ registered' = IF r.o.status = 201
                        THEN registered \cup {<<toLowerCase(email), password>>}
                        ELSE registered
       /\ UNCHANGED <<now, ticks, regs, clientVars>>

LoginReq(email, password, fault) ==
    LET body == [NoBody EXCEPT !.email = email, !.password = password]
        r == login(Outcome("login", NoHeader, body, fault))
    IN /\ last' = r.o
       /\ users' = r.users
       /\ UNCHANGED <<now, ticks, registered, regs, clientVars>>

MeReq(hdr, fault) ==
    /\ last' = getMe(Outcome("me", hdr, NoBody, fault))
    /\ UNCHANGED <<users, now, ticks, registered, regs, clientVars>>

LogoutReq(hdr, fault) ==
    /\ last' = postLogout(Outcome("logout", hdr, NoBody, fault))
    /\ UNCHANGED <<users, now, ticks, registered, regs, clientVars>>

ProfileReq(hdr, name) ==
    /\ LET r == putProfile(Outcome("profile", hdr, [NoBody EXCEPT !.name = name], "none")) IN
       /\ last' = r.o
       /\ users' = r.users
    /\ UNCHANGED <<now, ticks, registered, regs, clientVars>>

PreferencesReq(hdr, name, saveHistory) ==
    /\ LET r == putProfile(Outcome("profile", hdr,
                                   [name |-> name,
                                    preferences |-> [saveHistory |-> saveHistory]],
                                   "none")) IN
       /\ last' = r.o
       /\ users' = r.users
    /\ UNCHANGED <<now, ticks, registered, regs, clientVars>>

\* the _id the next subdocument gets: one the history has not seen
NextDocumentId(user) ==
    IF user.documentHistory = <<>> THEN 1
    ELSE user.documentHistory[Len(user.documentHistory)].id + 1

DocumentHistoryReq(hdr, document) ==
    /\ document.id <= MaxDocs
    /\ LET r == postDocumentHistory(Outcome("documentHistory", hdr,
                                            [document |-> document], "none")) IN
       /\ last' = r.o
       /\ users' = r.users
    /\ UNCHANGED <<now, ticks, registered, regs, clientVars>>

RefreshReq(refreshToken) ==
    /\ last' = refresh(Outcome("refresh", NoHeader,
                               [NoBody EXCEPT !.refreshToken = refreshToken], "none"))
    /\ UNCHANGED <<users, now, ticks, registered, regs, clientVars>>

ServerInit ==
    /\ users = <<>>
    /\ now = 0
    /\ ticks = 0
    /\ last = Outcome("none", NoHeader, NoBody, "none")
    /\ registered = {}
    /\ regs = [h \in Handlers |-> IdleHandler]
    \* no page is open
    /\ state = initialState(NoStorage)
    /\ ls = NoStorage
    /\ view = initialState(NoStorage)
    /\ icpt = initialState(NoStorage)
    /\ reqs = [i \in Slots |-> FreeSlot]
    /\ settled = <<>>
    /\ issued = 0
    /\ boot = "idle"
    /\ quota = 0

\* the middleware under every header, between requests that change the server
MiddlewareNext ==
    \/ \E d \in TickSteps : Tick(d)
    \/ \E hdr \in Headers, fault \in {"none"} \cup LookupFaults :
            AuthenticateTokenReq(hdr, fault)
    \/ \E hdr \in Headers, fault \in {"none", "findById"} : OptionalAuthReq(hdr, fault)
    \/ \E email \in {"a@b.com", "c@d.com"} :
            RegisterReq(email, "secret1", "secret1", "Al", 1, "none")
    \/ \E email \in {"a@b.com"}, password \in {"secret1", "wrong12"} :
            LoginReq(email, password, "none")
    \/ \E hdr \in {NoHeader, Header("Bearer", <<Tok(JWT_SECRET, 1, AccessLifetime)>>)} :
            LogoutReq(hdr, "none")
    \/ \E t \in RefreshBodies : RefreshReq(t)

SpecMiddleware == ServerInit /\ [][MiddlewareNext]_vars

\* register and login under every body
EndpointsNext ==
    \/ Tick(AccessLifetime)
    \/ \E email \in Emails, password \in Passwords, salt \in Salts,
          fault \in {"none", "findByEmail"} :
          \E confirmPassword \in {password, "secret1"} :
            RegisterReq(email, password, confirmPassword, "Al", salt, fault)
    \/ \E fault \in {"save1", "save2"} :
            RegisterReq("c@d.com", "secret1", "secret1", "Al", 1, fault)
    \/ \E email \in Emails, password \in Passwords,
          fault \in {"none", "save"} : LoginReq(email, password, fault)
    \/ \E userId \in {1, 2} :
            MeReq(Header("Bearer", <<Tok(JWT_SECRET, userId, AccessLifetime)>>), "none")
    \/ \E userId \in {1, 2}, fault \in LookupFaults :
            AuthenticateTokenReq(Header("Bearer", <<Tok(JWT_SECRET, userId, AccessLifetime)>>),
                                 fault)
    \/ \E userId \in {1, 2} :
            ProfileReq(Header("Bearer", <<Tok(JWT_SECRET, userId, AccessLifetime)>>), "Al")

SpecEndpoints == ServerInit /\ [][EndpointsNext]_vars

-----------------------------------------------------------------------------
(* Two POST /register handlers interleaved at their awaits *)

RegisterBegin(h, email, password) ==
    /\ regs[h].pc = "idle"
    /\ regs' = [regs EXCEPT ![h] =
                   registerBegin(Outcome("register", NoHeader,
                                         [NoBody EXCEPT !.email = email,
                                                        !.password = password,
                                                        !.confirmPassword = password,
                                                        !.name = "Al"],
                                         "none"))]
    /\ UNCHANGED <<users, now, ticks, last, registered, clientVars>>

RegisterLookup(h) ==
    /\ regs[h].pc = "lookup"
    /\ regs' = [regs EXCEPT ![h] = registerLookup(@)]
    /\ UNCHANGED <<users, now, ticks, last, registered, clientVars>>

RegisterInsert(h) ==
    /\ regs[h].pc = "insert"
    /\ regs' = [regs EXCEPT ![h] = registerInsert(@, 1).o]
    /\ users' = registerInsert(regs[h], 1).users
    /\ UNCHANGED <<now, ticks, last, registered, clientVars>>

RegisterStamp(h) ==
    /\ regs[h].pc = "stamp"
    /\ regs' = [regs EXCEPT ![h] = registerStamp(@, 1).o]
    /\ users' = registerStamp(regs[h], 1).users
    /\ registered' = registered \cup {<<toLowerCase(regs[h].o.body.email),
                                        regs[h].o.body.password>>}
    /\ UNCHANGED <<now, ticks, last, clientVars>>

RaceNext ==
    \/ \E h \in Handlers, email \in {"a@b.com", "A@B.com", "c@d.com"},
          password \in {"secret1", "short"} : RegisterBegin(h, email, password)
    \/ \E h \in Handlers : RegisterLookup(h)
    \/ \E h \in Handlers : RegisterInsert(h)
    \/ \E h \in Handlers : RegisterStamp(h)

SpecRegisterRace == ServerInit /\ [][RaceNext]_vars

\* one registered identity adding documents to its history and switching its
\* saveHistory preference; no page is open
HistoryInit ==
    /\ users = <<[id |-> 1, email |-> "a@b.com",
                  password |-> bcryptHash("secret1", 1), name |-> "Al",
                  lastLoginAt |-> 0, updatedAt |-> 0,
                  documentHistory |-> <<>>, preferences |-> [saveHistory |-> TRUE]]>>
    /\ now = 0
    /\ ticks = 0
    /\ last = Outcome("none", NoHeader, NoBody, "none")
    /\ registered = {<<"a@b.com", "secret1">>}
    /\ regs = [h \in Handlers |-> IdleHandler]
    /\ state = initialState(NoStorage)
    /\ ls = NoStorage
    /\ view = initialState(NoStorage)
    /\ icpt = initialState(NoStorage)
    /\ reqs = [i \in Slots |-> FreeSlot]
    /\ settled = <<>>
    /\ issued = 0
    /\ boot = "idle"
    /\ quota = 0

HistoryNext ==
    \/ \E saveHistory \in BOOLEAN :
          PreferencesReq(Header("Bearer", <<Tok(JWT_SECRET, 1, AccessLifetime)>>),
                         "Al", saveHistory)
    \/ DocumentHistoryReq(Header("Bearer", <<Tok(JWT_SECRET, 1, AccessLifetime)>>),
                          [id |-> NextDocumentId(users[1])])

SpecHistory == HistoryInit /\ [][HistoryNext]_vars

-----------------------------------------------------------------------------
(* context/AuthContext.jsx: requests, interceptors and the context functions. *)
(* A handler is a function of the bundle of client variables it reads and    *)
(* writes; everything that runs before the next network wait is one step.    *)

Caller(type, parent) == [type |-> type, parent |-> parent]

\* requestInterceptor: overwrite the header when the closed-over state has a token
requestInterceptor(authorization) ==
    IF ~IsFalsy(icpt.token) THEN icpt.token ELSE authorization

\* an axios request config on its way, and what has happened to it
Req(kind, authorization, body, caller) ==
    [kind |-> kind,
     explicit |-> authorization,               \* headers.Authorization set by the caller
     hdr |-> requestInterceptor(authorization), \* headers.Authorization as sent
     body |-> body,
     retry |-> FALSE,                           \* config._retry
     cl |-> icpt,                               \* the state its first response interceptor closes over
     caller |-> caller,                         \* who awaits it
     phase |-> "sent",                          \* sent | refreshing (awaiting its refresh call)
     n403 |-> 0,                                \* 403 responses received
     nRefresh |-> 0,                            \* refresh calls its interceptor made
     nResend |-> 0,                             \* times it was re-issued
     nLogout |-> 0]                             \* logout() calls its interceptor made

dispatch(c, action) == [c EXCEPT !.state = authReducer(@, action)]

FreeSlots(c) == {i \in Slots : c.reqs[i] = FreeSlot}

\* issue a request: it takes the lowest free slot (past quota requests the
\* step is cut off)
send(c, kind, authorization, body, caller) ==
    IF c.issued >= quota THEN [c EXCEPT !.overflow = TRUE]
    ELSE [c EXCEPT !.reqs[CHOOSE i \in FreeSlots(c) : \A j \in FreeSlots(c) : i <= j] =
                        Req(kind, authorization, body, caller),
                   !.issued = @ + 1]

\* finally { localStorage.removeItem x 2; dispatch({ type: 'LOGOUT' }) }
logoutFinally(c) == dispatch([c EXCEPT !.ls = NoStorage], Action("LOGOUT", ""))

\* logout() up to its first wait, with the state st it closes over;
\* origin: the request whose interceptor called it (0: the UI)
logout(c, st, origin) ==
    IF ~IsFalsy(st.token)
    THEN send(c, "logout", NullToken, NoBody, Caller("logout", origin))
    ELSE logoutFinally(c)

\* checkAuthStatus() after await axios.get('/auth/me')
checkAuthStatusThen(c, r, ok, resp) ==
    IF ok
    THEN dispatch(c, Action("AUTH_SUCCESS",
                            [user |-> resp.user, token |-> r.explicit,
                             refreshToken |-> c.ls.refreshToken]))
    ELSE dispatch([c EXCEPT !.ls = NoStorage], Action("AUTH_FAILURE", "Session expired"))

\* a catch block that always reports its default
errorMessage_Default(resp, defaultMessage) == defaultMessage

\* error.response?.data?.message || defaultMessage
errorMessage(resp, defaultMessage) ==
    IF resp.message # "" THEN resp.message ELSE defaultMessage

\* what a context function returns to its caller: { success: true } or
\* { success: false, error: message }; NoReturn for a function that returns nothing
NoReturn == [success |-> FALSE, error |-> "<undefined>"]
returned(type, ok, resp) ==
    LET Ret(defaultMessage) ==
            IF ok THEN [success |-> TRUE, error |-> ""]
            ELSE [success |-> FALSE, error |-> errorMessage(resp, defaultMessage)]
    IN CASE type = "login" -> Ret("Login failed")
         [] type = "register" -> Ret("Registration failed")
         [] type = "updateProfile" -> Ret("Profile update failed")
         [] OTHER -> NoReturn

\* a login()/register() whose catch block dispatches nothing
authThen_NoFailure(c, ok, resp, defaultMessage) ==
    IF ok
    THEN dispatch([c EXCEPT !.ls = [token |-> resp.token,
                                    refreshToken |-> resp.refreshToken]],
                  Action("AUTH_SUCCESS",
                         [user |-> resp.user, token |-> resp.token,
                          refreshToken |-> resp.refreshToken]))
    ELSE c

\* login() / register() after await axios.post(...)
authThen(c, ok, resp, defaultMessage) ==
    IF ok
    THEN dispatch([c EXCEPT !.ls = [token |-> resp.token,
                                    refreshToken |-> resp.refreshToken]],
                  Action("AUTH_SUCCESS",
                         [user |-> resp.user, token |-> resp.token,
                          refreshToken |-> resp.refreshToken]))
    ELSE dispatch(c, Action("AUTH_FAILURE", errorMessage(resp, defaultMessage)))

\* an interceptor that forgets to set originalRequest._retry
MarkRetried_Forgotten(r) == r

\* originalRequest._retry = true
MarkRetried(r) == [r EXCEPT !.retry = TRUE]

\* responseInterceptor, try block after await axios.post('/auth/refresh'):
\* store the token, dispatch AUTH_SUCCESS with { ...state, token: newToken }
\* (state: the closure of request p), then return axios(originalRequest)
renew(c, p, newToken) ==
    LET cl == c.reqs[p].cl
        c1 == dispatch([c EXCEPT !.ls.token = newToken],
                       Action("AUTH_SUCCESS",
                              [user |-> cl.user, token |-> newToken,
                               refreshToken |-> cl.refreshToken]))
    IN [c1 EXCEPT !.reqs[p].phase = "sent",
                  !.reqs[p].explicit = newToken,
                  !.reqs[p].hdr = requestInterceptor(newToken),
                  !.reqs[p].nResend = @ + 1]

\* what is noted of a request when it settles
Summary(r, ok, resp) ==
    [kind |-> r.kind, caller |-> r.caller.type, hdr |-> r.hdr,
     result |-> IF ok THEN "resolved" ELSE "rejected", status |-> resp.status,
     retry |-> r.retry, n403 |-> r.n403, nRefresh |-> r.nRefresh,
     nResend |-> r.nResend, nLogout |-> r.nLogout,
     returned |-> returned(r.caller.type, ok, resp)]

\* a promise settles: run the continuation of whoever awaits request i
RECURSIVE Settle(_, _, _, _)
Settle(c, i, ok, resp) ==
    LET r == c.reqs[i]
        \* the slot is freed; what the request went through is noted in settled
        c1 == [c EXCEPT !.reqs[i] = FreeSlot,
                        !.settled = Append(@, Summary(r, ok, resp))]
        t == r.caller.type
    IN CASE t = "checkAuthStatus" -> checkAuthStatusThen(c1, r, ok, resp)
         [] t = "login" -> authThen(c1, ok, resp, "Login failed")
         [] t = "register" -> authThen(c1, ok, resp, "Registration failed")
         [] t = "logout" -> logoutFinally(c1)
         [] t = "updateProfile" ->
                IF ok THEN dispatch(c1, Action("UPDATE_USER", resp.user)) ELSE c1
         [] t = "refreshOf" ->
                LET p == r.caller.parent IN
                IF ok THEN renew(c1, p, resp.token)
                \* catch (refreshError) { logout(); return Promise.reject(refreshError) }
                ELSE Settle(logout([c1 EXCEPT !.reqs[p].nLogout = @ + 1],
                                   c1.reqs[p].cl, p),
                            p, FALSE, resp)

\* responseInterceptor: (response) => response, and the error handler
responseInterceptor(c, i, resp) ==
    IF resp.status \in 200..299 THEN Settle(c, i, TRUE, resp)
    ELSE LET r == c.reqs[i]
             c0 == IF resp.status = 403 THEN [c EXCEPT !.reqs[i].n403 = @ + 1] ELSE c
         IN IF resp.status = 403 /\ ~r.retry
            THEN send([c0 EXCEPT !.reqs[i] = [MarkRetried(@) EXCEPT !.phase = "refreshing",
                                                                   !.nRefresh = @ + 1]],
                      "refresh", NullToken,
                      [NoBody EXCEPT !.refreshToken = r.cl.refreshToken],
                      Caller("refreshOf", i))
            ELSE Settle(c0, i, FALSE, resp)

\* what the server answers to request r (the Authorization header as the server reads it)
serve(r) ==
    LET o == Outcome(r.kind,
                     IF r.hdr = NullToken THEN NoHeader ELSE Header("Bearer", <<r.hdr>>),
                     r.body, "none")
    IN CASE r.kind = "me" -> Result(getMe(o), users)
         [] r.kind = "login" -> login(o)
         [] r.kind = "register" -> register(o, 1)
         [] r.kind = "logout" -> Result(postLogout(o), users)
         [] r.kind = "refresh" -> Result(refresh(o), users)
         [] r.kind = "profile" -> putProfile(o)

\* no response at all: error.response is undefined
NetworkError == Outcome("network", NoHeader, NoBody, "none")

Bundle == [state |-> state, ls |-> ls, reqs |-> reqs, settled |-> <<>>,
           issued |-> issued, overflow |-> FALSE]

Commit(c) ==
    /\ ~c.overflow
    /\ state' = c.state
    /\ ls' = c.ls
    /\ reqs' = c.reqs
    /\ settled' = c.settled
    /\ issued' = c.issued

-----------------------------------------------------------------------------
(* Client actions *)

\* the mount effect: checkAuthStatus() up to its first wait
CheckAuthStatus ==
    /\ boot = "pending"
    /\ boot' = "done"
    /\ Commit(IF IsFalsy(ls.token)
              THEN dispatch(Bundle, Action("SET_LOADING", FALSE))
              ELSE send(Bundle, "me", ls.token, NoBody, Caller("checkAuthStatus", 0)))
    /\ UNCHANGED <<serverVars, view, icpt, quota>>

\* React re-renders; the interceptor effect re-runs when a token changed
Render ==
    /\ view # state
    /\ view' = state
    /\ icpt' = IF state.token # icpt.token \/ state.refreshToken # icpt.refreshToken
               THEN state ELSE icpt
    /\ settled' = <<>>
    /\ UNCHANGED <<serverVars, state, ls, reqs, issued, boot, quota>>

AuthFormShown == ~view.isLoading /\ ~view.isAuthenticated
DashboardShown == ~view.isLoading /\ view.isAuthenticated

\* login(email, password) up to its wait
CtxLogin(email, password) ==
    /\ AuthFormShown
    /\ Commit(send(dispatch(Bundle, Action("AUTH_START", "")), "login", NullToken,
                   [NoBody EXCEPT !.email = email, !.password = password],
                   Caller("login", 0)))
    /\ UNCHANGED <<serverVars, view, icpt, boot, quota>>

\* register(email, password, confirmPassword, name) up to its wait
CtxRegister(email, password, confirmPassword, name) ==
    /\ AuthFormShown
    /\ Commit(send(dispatch(Bundle, Action("AUTH_START", "")), "register", NullToken,
                   [NoBody EXCEPT !.email = email, !.password = password,
                                  !.confirmPassword = confirmPassword, !.name = name],
                   Caller("register", 0)))
    /\ UNCHANGED <<serverVars, view, icpt, boot, quota>>

\* logout() called from the Dashboard
CtxLogout ==
    /\ DashboardShown
    /\ Commit(logout(Bundle, view, 0))
    /\ UNCHANGED <<serverVars, view, icpt, boot, quota>>

\* updateProfile(profileData) up to its wait
UpdateProfile(name) ==
    /\ DashboardShown
    /\ Commit(send(Bundle, "profile", NullToken, [NoBody EXCEPT !.name = name],
                   Caller("updateProfile", 0)))
    /\ UNCHANGED <<serverVars, view, icpt, boot, quota>>

\* clearError()
ClearError ==
    /\ AuthFormShown
    /\ view.error # ""
    /\ Commit(dispatch(Bundle, Action("CLEAR_ERROR", "")))
    /\ UNCHANGED <<serverVars, view, icpt, boot, quota>>

\* the server handles request i and the response reaches the client, or the
\* request fails without a response
Deliver(i, net) ==
    /\ reqs[i].phase = "sent"
    /\ LET sv == IF net = "ok" THEN serve(reqs[i]) ELSE Result(NetworkError, users) IN
       /\ Commit(responseInterceptor(Bundle, i, sv.o))
       /\ users' = sv.users
       /\ registered' = IF sv.o.op = "register" /\ sv.o.status = 201
                        THEN registered \cup {<<toLowerCase(sv.o.body.email),
                                                sv.o.body.password>>}
                        ELSE registered
    /\ UNCHANGED <<now, ticks, last, regs, view, icpt, boot, quota>>

\* a page opened by a user who registered at day 0, with or without the
\* tokens of that registration in localStorage
ClientInit ==
    /\ users = <<[id |-> 1, email |-> "a@b.com",
                  password |-> bcryptHash("secret1", 1), name |-> "Al",
                  lastLoginAt |-> 0, updatedAt |-> 0,
                  documentHistory |-> <<>>, preferences |-> [saveHistory |-> TRUE]]>>
    /\ now = 0
    /\ ticks = 0
    /\ last = Outcome("none", NoHeader, NoBody, "none")
    /\ registered = {<<"a@b.com", "secret1">>}
    /\ regs = [h \in Handlers |-> IdleHandler]
    /\ ls \in {NoStorage,
               [token |-> Tok(JWT_SECRET, 1, AccessLifetime),
                refreshToken |-> Tok(JWT_REFRESH_SECRET, 1, RefreshLifetime)]}
    /\ state = initialState(ls)
    /\ view = state
    /\ icpt = state
    /\ reqs = [i \in Slots |-> FreeSlot]
    /\ settled = <<>>
    /\ issued = 0
    /\ boot = "pending"
    /\ quota = MaxReqs

ClientNext ==
    \/ CheckAuthStatus
    \/ Render
    \/ \E password \in {"secret1", "wrong12"} : CtxLogin("a@b.com", password)
    \/ CtxRegister("c@d.com", "secret1", "secret1", "Cy")
    \/ CtxLogout
    \/ UpdateProfile("Bo")
    \/ ClearError
    \/ \E i \in Slots, net \in {"ok", "down"} : Deliver(i, net)
    \/ \E d \in TickSteps : Tick(d)

SpecClient == ClientInit /\ [][ClientNext]_vars

\* a page on which the user logged in at day 0 and which has rendered since:
\* the Dashboard is shown and the interceptors close over the session's tokens
SessionInit ==
    /\ users = <<[id |-> 1, email |-> "a@b.com",
                  password |-> bcryptHash("secret1", 1), name |-> "Al",
                  lastLoginAt |-> 0, updatedAt |-> 0,
                  documentHistory |-> <<>>, preferences |-> [saveHistory |-> TRUE]]>>
    /\ now = 0
    /\ ticks = 0
    /\ last = Outcome("none", NoHeader, NoBody, "none")
    /\ registered = {<<"a@b.com", "secret1">>}
    /\ regs = [h \in Handlers |-> IdleHandler]
    /\ ls = [token |-> generateToken(1), refreshToken |-> generateRefreshToken(1)]
    /\ state = authReducer(initialState(NoStorage),
                           Action("AUTH_SUCCESS",
                                  [user |-> login(Outcome("login", NoHeader,
                                                          [NoBody EXCEPT !.email = "a@b.com",
                                                                         !.password = "secret1"],
                                                          "none")).o.user,
                                   token |-> ls.token, refreshToken |-> ls.refreshToken]))
    /\ view = state
    /\ icpt = state
    /\ reqs = [i \in Slots |-> FreeSlot]
    /\ settled = <<>>
    /\ issued = 0
    /\ boot = "done"
    /\ quota = MaxSessionReqs

\* the Dashboard's calls, the network and the clock
SessionNext ==
    \/ Render
    \/ CtxLogout
    \/ UpdateProfile("Bo")
    \/ \E i \in Slots, net \in {"ok", "down"} : Deliver(i, net)
    \/ \E d \in TickSteps : Tick(d)

SpecSession == SessionInit /\ [][SessionNext]_vars

\* the reducer on its own: the session states and the actions it is applied to
SessionUsers == {NoUser, [id |-> 1, email |-> "a@b.com", name |-> "Al", lastLoginAt |-> 0]}

SessionStates ==
    [user : SessionUsers,
     token : {NullToken, Tok(JWT_SECRET, 1, AccessLifetime)},
     refreshToken : {NullToken, Tok(JWT_REFRESH_SECRET, 1, RefreshLifetime)},
     isAuthenticated : BOOLEAN, isLoading : BOOLEAN,
     error : {"", "Login failed", "Session expired"}]

ReducerActions ==
    {Action("AUTH_START", ""), Action("LOGOUT", ""), Action("CLEAR_ERROR", ""),
     Action("SET_LOADING", TRUE), Action("SET_LOADING", FALSE),
     Action("AUTH_FAILURE", "Login failed"),
     Action("UPDATE_USER", [id |-> 1, email |-> "a@b.com", name |-> "Bo"]),
     Action("AUTH_SUCCESS", [user |-> [id |-> 1, email |-> "a@b.com", name |-> "Al",
                                       lastLoginAt |-> 0],
                             token |-> Tok(JWT_SECRET, 1, AccessLifetime),
                             refreshToken |-> Tok(JWT_REFRESH_SECRET, 1, RefreshLifetime)])}

\* dispatch(action) on its own
Dispatch(action) ==
    /\ state' = authReducer(state, action)
    /\ UNCHANGED <<serverVars, ls, view, icpt, reqs, settled, issued, boot, quota>>

ReducerInit ==
    /\ users = <<>>
    /\ now = 0
    /\ ticks = 0
    /\ last = Outcome("none", NoHeader, NoBody, "none")
    /\ registered = {}
    /\ regs = [h \in Handlers |-> IdleHandler]
    /\ state \in SessionStates
    /\ ls = NoStorage
    /\ view = initialState(NoStorage)
    /\ icpt = initialState(NoStorage)
    /\ reqs = [i \in Slots |-> FreeSlot]
    /\ settled = <<>>
    /\ issued = 0
    /\ boot = "idle"
    /\ quota = 0

ReducerNext == \E action \in ReducerActions : Dispatch(action)

SpecReducer == ReducerInit /\ [][ReducerNext]_vars

-----------------------------------------------------------------------------
(* Properties of the mandatory and the optional middleware (SpecMiddleware) *)

\* the request carried exactly `Authorization: Bearer <t>`, t a well-formed JWT
IsBearerJwt(o) ==
    /\ o.hdr.present
    /\ o.hdr.scheme = "Bearer"
    /\ Len(o.hdr.rest) = 1
    /\ o.hdr.rest[1] \notin {Garbage, EmptyString, Undefined, NullToken}

BearerToken(o) == o.hdr.rest[1]

\* C4: a request with a valid, unexpired access token whose subject is in the
\* store (the lookup answering) is forwarded exactly once, with the subject's
\* document minus its password attached, and the middleware sends no response.
C4_ValidTokenForwardedOnce ==
    ( /\ last.op = "authenticateToken"
      /\ IsBearerJwt(last)
      /\ BearerToken(last).secret = JWT_SECRET
      /\ last.at < BearerToken(last).exp
      /\ BearerToken(last).userId \in 1..last.nUsers
      /\ last.fault = "none" )
    => /\ last.nextCalls = 1
       /\ last.responses = 0
       /\ last.reqUser.id = BearerToken(last).userId
       /\ "password" \notin DOMAIN last.reqUser
       /\ last.reqUser.email = users[BearerToken(last).userId].email

C4_Witness ==
    /\ last.op = "authenticateToken"
    /\ IsBearerJwt(last)
    /\ BearerToken(last) = Tok(JWT_SECRET, 2, AccessLifetime)
    /\ last.nextCalls = 1
    /\ last.reqUser.id = 2

\* C5: a bearer token signed with a secret other than the access secret is
\* answered 403 INVALID_TOKEN and never forwarded, expired or not.
C5_ForeignSecretInvalidToken ==
    ( /\ last.op = "authenticateToken"
      /\ IsBearerJwt(last)
      /\ BearerToken(last).secret # JWT_SECRET )
    => /\ last.status = 403
       /\ last.error = "INVALID_TOKEN"
       /\ last.nextCalls = 0
       /\ last.responses = 1

C5_Witness ==
    /\ last.op = "authenticateToken"
    /\ IsBearerJwt(last)
    /\ BearerToken(last).secret = OtherSecret
    /\ last.at >= BearerToken(last).exp
    /\ BearerToken(last).userId \in 1..last.nUsers
    /\ last.error = "INVALID_TOKEN"

\* C6: a correctly signed access token whose lifetime has elapsed is answered
\* 403 TOKEN_EXPIRED, not INVALID_TOKEN; the request is not forwarded and the
\* IdentityStore is not consulted.
C6_ExpiredTokenDistinct ==
    ( /\ last.op = "authenticateToken"
      /\ IsBearerJwt(last)
      /\ BearerToken(last).secret = JWT_SECRET
      /\ last.at >= BearerToken(last).exp )
    => /\ last.status = 403
       /\ last.error = "TOKEN_EXPIRED"
       /\ last.error # "INVALID_TOKEN"
       /\ last.nextCalls = 0
       /\ last.lookups = 0

C6_Witness ==
    /\ last.op = "authenticateToken"
    /\ IsBearerJwt(last)
    /\ BearerToken(last).secret = JWT_SECRET
    /\ last.at = BearerToken(last).exp
    /\ BearerToken(last).userId \in 1..last.nUsers
    /\ last.error = "TOKEN_EXPIRED"

\* C7: a request without Authorization header is answered 401 NO_TOKEN and not
\* forwarded, in every state any sequence of requests leads to.
C7_NoHeaderNoToken ==
    (last.op = "authenticateToken" /\ ~last.hdr.present)
    => /\ last.status = 401
       /\ last.error = "NO_TOKEN"
       /\ last.nextCalls = 0
       /\ last.responses = 1
       /\ last.lookups = 0

C7_Witness ==
    /\ last.op = "authenticateToken"
    /\ ~last.hdr.present
    /\ last.error = "NO_TOKEN"
    /\ Len(users) = 2
    /\ now > 0

\* C8: a header that is present with a scheme other than Bearer is answered
\* NO_TOKEN.
C8_NonBearerSchemeNoToken ==
    ( /\ last.op = "authenticateToken"
      /\ last.hdr.present
      /\ last.hdr.scheme # "Bearer"
      /\ last.hdr.scheme # "" )
    => /\ last.status = 401
       /\ last.error = "NO_TOKEN"
       /\ last.nextCalls = 0

\* C9: the optional middleware never answers and forwards exactly once; when
\* there is no token, verification throws, the subject is unknown or the store
\* faults, no identity is attached.
OptionalAuthFailed(o) ==
    \/ IsFalsy(ExtractToken(o.hdr))
    \/ ExtractToken(o.hdr) = Garbage
    \/ ExtractToken(o.hdr).secret # JWT_SECRET
    \/ o.at >= ExtractToken(o.hdr).exp
    \/ ExtractToken(o.hdr).userId \notin 1..o.nUsers
    \/ o.fault # "none"

C9_OptionalAlwaysForwards ==
    last.op = "optionalAuth"
    => /\ last.responses = 0
       /\ last.status = 0
       /\ last.nextCalls = 1
       /\ (OptionalAuthFailed(last) => last.reqUser = NoUser)

C9_Witness ==
    /\ last.op = "optionalAuth"
    /\ IsBearerJwt(last)
    /\ BearerToken(last).secret = JWT_SECRET
    /\ last.at >= BearerToken(last).exp
    /\ last.nextCalls = 1
    /\ last.reqUser = NoUser

-----------------------------------------------------------------------------
(* Properties of register and login (SpecEndpoints) *)

\* the password a successful register for this (lower-cased) email was given
RegisteredWith(email, p) == <<toLowerCase(email), p>> \in registered

-----------------------------------------------------------------------------
(* Properties of the client context (SpecClient) *)

InFlight == {i \in Slots : reqs[i] # FreeSlot}

\* the refresh calls in flight that the interceptor made for request i
RefreshCallsOf(i) == {j \in InFlight : reqs[j].caller = Caller("refreshOf", i)}

\* C1: a request answered 403 while not marked retried gets exactly one refresh
\* call; a successful refresh re-issues it exactly once; a 403 on the re-issued
\* request is propagated to the caller with no second refresh and no second
\* re-issue.
C1_RetryOnce ==
    /\ \A i \in InFlight :
          /\ reqs[i].n403 <= 1
          /\ reqs[i].nRefresh = reqs[i].n403
          /\ reqs[i].nResend <= reqs[i].nRefresh
          /\ IF reqs[i].phase = "refreshing"
             THEN /\ Cardinality(RefreshCallsOf(i)) = 1
                  /\ reqs[i].nRefresh = 1
                  /\ reqs[i].nResend = 0
             ELSE /\ RefreshCallsOf(i) = {}
                  /\ reqs[i].nResend = reqs[i].nRefresh
    /\ \A k \in 1..Len(settled) :
          /\ settled[k].n403 <= 2
          /\ settled[k].nRefresh <= 1
          /\ settled[k].nResend <= settled[k].nRefresh
          /\ settled[k].n403 >= 1 => settled[k].nRefresh = 1
          /\ settled[k].n403 = 2 => /\ settled[k].nResend = 1
                                   /\ settled[k].result = "rejected"
                                   /\ settled[k].status = 403
          \* settled without having been re-issued: its refresh call failed
          /\ (settled[k].nRefresh = 1 /\ settled[k].nResend = 0)
                => /\ k > 1
                   /\ settled[k - 1].caller = "refreshOf"
                   /\ settled[k - 1].result = "rejected"
                   /\ settled[k].result = "rejected"

C1_Witness ==
    \E k \in 1..Len(settled) :
        /\ settled[k].n403 = 2
        /\ settled[k].nRefresh = 1
        /\ settled[k].nResend = 1
        /\ settled[k].result = "rejected"

\* C2: in every reachable session state, isAuthenticated implies that user,
\* token and refreshToken are all non-null.
C2_AuthenticatedComplete ==
    state.isAuthenticated
    => /\ state.user # NoUser
       /\ state.token # NullToken
       /\ state.refreshToken # NullToken

\* C3: a refresh call that was answered with an error has failed: it is not
\* kept waiting, the request it was made for is rejected to its caller and
\* logout() has been called for it.
C3_RefreshFailureLogsOut ==
    /\ \A i \in InFlight : reqs[i].caller.type = "refreshOf" => reqs[i].n403 = 0
    /\ \A k \in 1..Len(settled) :
          (settled[k].caller = "refreshOf" /\ settled[k].result = "rejected")
          => /\ k < Len(settled)
             /\ settled[k + 1].result = "rejected"
             /\ settled[k + 1].nLogout = 1

-----------------------------------------------------------------------------
(* Properties of login, refresh and logout on the server *)

\* the store holds an identity for this email
IsRegistered(email) == findByEmail(email) # NoUser

\* the store holds an identity for this email whose password hashes this text
HasPassword(email, text) ==
    IsRegistered(email) /\ findByEmail(email).password.text = text

\* the last request was a login with both fields, answered without a store fault
LoginAnswered ==
    /\ last.op = "login"
    /\ last.fault = "none"
    /\ last.body.email # ""
    /\ last.body.password # ""

\* C11: a login with an unregistered email and a login with a registered email
\* and a wrong password get the same status, error code and message
\* (401 INVALID_CREDENTIALS), and a rejected login leaves the store unchanged.
C11_LoginDoesNotReveal ==
    /\ []( ( /\ LoginAnswered
             /\ \/ ~IsRegistered(last.body.email)
                \/ ~HasPassword(last.body.email, last.body.password) )
           => /\ last.status = 401
              /\ last.error = "INVALID_CREDENTIALS"
              /\ last.message = "Invalid email or password"
              /\ last.token = NullToken
              /\ last.refreshToken = NullToken )
    /\ [][(last'.op = "login" /\ last'.status = 401) => users' = users]_vars

C11_Witness ==
    /\ LoginAnswered
    /\ IsRegistered("a@b.com")
    /\ last.body.email = "nobody"
    /\ last.body.password = "secret1"
    /\ last.status = 401

\* the store held an identity for this email before the last request
ExistedBefore(email) ==
    \E u \in 1..last.nUsers : users[u].email = toLowerCase(email)

\* the error the register checks give in their order, "" when all four pass
FirstFailingCheck(body, exists) ==
    IF body.email = "" \/ body.password = "" THEN "MISSING_FIELDS"
    ELSE IF body.confirmPassword # body.password THEN "PASSWORD_MISMATCH"
    ELSE IF Len(body.password) < MinPasswordLength THEN "PASSWORD_TOO_SHORT"
    ELSE IF exists THEN "USER_EXISTS"
    ELSE ""

\* C15: register answers with the first failing check in the order
\* MissingFields, PasswordMismatch, PasswordTooShort, UserExists (the store
\* answering the lookup); the status is 400, no identity is created and no
\* token is issued.
C15_RegisterValidationOrder ==
    ( /\ last.op = "register"
      /\ last.fault # "findByEmail"
      /\ FirstFailingCheck(last.body, ExistedBefore(last.body.email)) # "" )
    => /\ last.error = FirstFailingCheck(last.body, ExistedBefore(last.body.email))
       /\ last.status = 400
       /\ Len(users) = last.nUsers
       /\ last.user = NoUser
       /\ last.token = NullToken
       /\ last.refreshToken = NullToken

C15_Witness ==
    /\ last.op = "register"
    /\ last.body.email = "A@B.com"
    /\ last.body.password = "short"
    /\ last.body.confirmPassword = "secret1"
    /\ ExistedBefore("A@B.com")
    /\ last.error = "PASSWORD_MISMATCH"

\* handlers g and h were both called with valid bodies for the same email,
\* letter case aside, and both have answered
RacedForSameEmail(g, h) ==
    /\ g # h
    /\ regs[g].pc = "done"
    /\ regs[h].pc = "done"
    /\ toLowerCase(regs[g].o.body.email) = toLowerCase(regs[h].o.body.email)
    /\ Len(regs[g].o.body.password) >= MinPasswordLength
    /\ Len(regs[h].o.body.password) >= MinPasswordLength

\* C16: however two register handlers for the same email interleave, the store
\* never holds two identities with one email, exactly one of the two is
\* answered 201, and the other is answered 400 USER_EXISTS or DUPLICATE_EMAIL,
\* never 500.
C16_RegisterRace ==
    /\ \A i, j \in 1..Len(users) : users[i].email = users[j].email => i = j
    /\ \A h \in Handlers : regs[h].pc = "done" => regs[h].o.status \in {201, 400}
    /\ \A g, h \in Handlers :
          RacedForSameEmail(g, h) => ~(regs[g].o.status = 201 /\ regs[h].o.status = 201)
    /\ \A g, h \in Handlers :
          (RacedForSameEmail(g, h) /\ regs[g].o.status # 201)
          => /\ regs[h].o.status = 201
             /\ regs[g].o.status = 400
             /\ regs[g].o.error \in {"USER_EXISTS", "DUPLICATE_EMAIL"}
             /\ regs[g].o.token = NullToken

C16_Witness ==
    /\ RacedForSameEmail(1, 2)
    /\ regs[1].o.body.email = "A@B.com"
    /\ regs[2].o.body.email = "a@b.com"
    /\ regs[1].o.status = 201
    /\ regs[2].o.error = "DUPLICATE_EMAIL"
    /\ Len(users) = 1

\* tokens issued at day 0, by kind
AccessTokens == {Tok(JWT_SECRET, u, AccessLifetime) : u \in TokenSubjects}
RefreshTokens == {Tok(JWT_REFRESH_SECRET, u, RefreshLifetime) : u \in TokenSubjects}

\* the mandatory middleware forwards a request bearing t now
Accepts(t) ==
    authenticateToken(Outcome("authenticateToken", Header("Bearer", <<t>>),
                              NoBody, "none")).nextCalls = 1

\* /auth/refresh answers 200 to t now
RefreshAccepts(t) ==
    refresh(Outcome("refresh", NoHeader, [NoBody EXCEPT !.refreshToken = t],
                    "none")).status = 200

\* the last request submitted a refresh token that was signed with the refresh
\* secret and had not expired
ValidRefreshSubmitted ==
    /\ last.op = "refresh"
    /\ last.body.refreshToken \in RefreshTokens
    /\ last.at < last.body.refreshToken.exp

\* a step in which the server handles a refresh request: the last request is a
\* refresh and the step is not one of the clock
RefreshHandled == last'.op = "refresh" /\ now' = now

\* a step in which the server handles a logout request
LogoutHandled == last'.op = "logout" /\ now' = now

\* C12: a valid refresh token gets a new access token for the refresh token's
\* subject, and a refresh leaves every earlier access token exactly as
\* acceptable to the mandatory middleware as it was.
C12_RefreshKeepsSubject ==
    /\ [](ValidRefreshSubmitted
           => /\ last.status = 200
              /\ last.token = Tok(JWT_SECRET, last.body.refreshToken.userId,
                                  last.at + AccessLifetime))
    /\ [][RefreshHandled
           => \A a \in AccessTokens : Accepts(a)' = Accepts(a)]_vars
    /\ [](\A a \in AccessTokens :
            (now < a.exp /\ a.userId \in 1..Len(users)) => Accepts(a))

C12_Witness ==
    /\ ValidRefreshSubmitted
    /\ last.body.refreshToken.userId = 2
    /\ last.token.userId = 2
    /\ Accepts(Tok(JWT_SECRET, 2, AccessLifetime))

\* C13: an unexpired refresh token succeeds at every submission, whatever
\* logins, logouts and refreshes came before, and the response carries a new
\* access token and no refresh token.
C13_RefreshNotRotated ==
    /\ ValidRefreshSubmitted
        => /\ last.status = 200
           /\ last.token # NullToken
           /\ last.refreshToken = NullToken
    /\ \A t \in RefreshTokens : now < t.exp => RefreshAccepts(t)

C13_Witness ==
    /\ ValidRefreshSubmitted
    /\ last.at > 0
    /\ last.status = 200
    /\ last.refreshToken = NullToken
    /\ \E u \in 1..Len(users) : users[u].lastLoginAt >= 0

\* C14: POST /auth/logout answers 200 exactly when the middleware accepted the
\* bearer token, and changes nothing on the server: the store is the same and
\* every access and refresh token is as acceptable after it as before.
C14_LogoutIsNoOp ==
    /\ [](last.op = "logout"
           => /\ (last.status = 200) = (last.nextCalls = 1)
              /\ last.token = NullToken
              /\ last.refreshToken = NullToken)
    /\ [][LogoutHandled
           => /\ users' = users
              /\ \A a \in AccessTokens : Accepts(a)' = Accepts(a)
              /\ \A t \in RefreshTokens : RefreshAccepts(t)' = RefreshAccepts(t)]_vars

C14_Witness ==
    /\ last.op = "logout"
    /\ last.status = 200
    /\ last.message = "Logout successful"
    /\ Accepts(BearerToken(last))
    /\ RefreshAccepts(Tok(JWT_REFRESH_SECRET, BearerToken(last).userId, RefreshLifetime))

\* C17: /auth/refresh answers 401 NO_REFRESH_TOKEN when the body holds no
\* refresh token, and 403 INVALID_REFRESH_TOKEN when the token is malformed,
\* signed with another secret or expired, all alike; neither issues a token.
C17_RefreshFailures ==
    last.op = "refresh"
    => IF last.body.refreshToken \in {Undefined, NullToken, EmptyString}
       THEN /\ last.status = 401
            /\ last.error = "NO_REFRESH_TOKEN"
            /\ last.token = NullToken
       ELSE ( \/ last.body.refreshToken = Garbage
              \/ last.body.refreshToken.secret # JWT_REFRESH_SECRET
              \/ last.at >= last.body.refreshToken.exp )
            => /\ last.status = 403
               /\ last.error = "INVALID_REFRESH_TOKEN"
               /\ last.message = "Invalid refresh token"
               /\ last.token = NullToken

C17_Witness ==
    /\ last.op = "refresh"
    /\ last.body.refreshToken = Tok(JWT_REFRESH_SECRET, 1, RefreshLifetime)
    /\ last.at >= RefreshLifetime
    /\ last.nUsers >= 1
    /\ last.error = "INVALID_REFRESH_TOKEN"

\* C18: an unexpired refresh token of a stored subject, presented as bearer
\* token, is answered 403 INVALID_TOKEN by the mandatory middleware, and an
\* unexpired access token submitted to /auth/refresh is answered 403
\* INVALID_REFRESH_TOKEN.
C18_KindsNotInterchangeable ==
    /\ ( /\ last.op = "authenticateToken"
         /\ IsBearerJwt(last)
         /\ BearerToken(last).secret = JWT_REFRESH_SECRET )
       => /\ last.status = 403
          /\ last.error = "INVALID_TOKEN"
          /\ last.nextCalls = 0
          /\ last.reqUser = NoUser
    /\ ( /\ last.op = "refresh"
         /\ last.body.refreshToken \in AccessTokens )
       => /\ last.status = 403
          /\ last.error = "INVALID_REFRESH_TOKEN"
          /\ last.token = NullToken
    /\ \A t \in RefreshTokens : ~Accepts(t)
    /\ \A a \in AccessTokens : ~RefreshAccepts(a)

C18_Witness ==
    /\ last.op = "authenticateToken"
    /\ IsBearerJwt(last)
    /\ BearerToken(last) = Tok(JWT_REFRESH_SECRET, 1, RefreshLifetime)
    /\ last.at < RefreshLifetime
    /\ last.nUsers >= 1
    /\ last.error = "INVALID_TOKEN"
    /\ RefreshAccepts(BearerToken(last))

-----------------------------------------------------------------------------
(* Properties of the client bootstrap and of the re-issued request *)

\* the me() call of checkAuthStatus, while it is in flight
BootstrapCalls == {i \in InFlight : reqs[i].caller.type = "checkAuthStatus"}

\* C19, the three outcomes: without a persisted token the mount effect makes no
\* call and leaves the session unauthenticated and not loading; a me() that
\* resolves gives Success; a me() that rejects gives Failure with both
\* persisted tokens removed.
C19_BootstrapOutcomes ==
    /\ (boot = "done" /\ issued = 0)
       => (~state.isLoading /\ ~state.isAuthenticated /\ state.user = NoUser)
    /\ \A k \in 1..Len(settled) :
          settled[k].caller = "checkAuthStatus"
          => /\ ~state.isLoading
             /\ IF settled[k].result = "resolved"
                THEN /\ state.isAuthenticated
                     /\ state.user # NoUser
                     /\ state.token # NullToken
                     /\ state.error = ""
                ELSE /\ ~state.isAuthenticated
                     /\ state.user = NoUser
                     /\ state.token = NullToken
                     /\ state.refreshToken = NullToken
                     /\ state.error = "Session expired"
                     /\ ls = NoStorage

\* C19: bootstrap always ends in one of the three outcomes: besides the
\* outcomes above, a me() that waits for its refresh call waits for a call the
\* server can still answer, so that the answer ends the bootstrap.
C19_BootstrapEnds ==
    /\ C19_BootstrapOutcomes
    /\ \A i \in BootstrapCalls :
          reqs[i].phase = "refreshing"
          => \A j \in RefreshCallsOf(i) : reqs[j].phase = "sent"

\* C20: a re-issued request carries in its Authorization header the access
\* token its refresh call returned.
C20_RetryCarriesNewToken ==
    \A i \in InFlight :
        reqs[i].nResend = 1 => reqs[i].hdr = reqs[i].explicit

-----------------------------------------------------------------------------
(* Properties of concurrent renewals (SpecSession) *)

\* requests of the context functions that were answered 403 and wait for the
\* refresh call their interceptor made
Renewing == {i \in InFlight : reqs[i].phase = "refreshing"
                               /\ reqs[i].caller.type # "refreshOf"}

RefreshCalls == {j \in InFlight : reqs[j].kind = "refresh"}

\* one refresh call per failing request: every request waiting for a renewal
\* has a refresh call of its own in flight, and no refresh call is shared
C21_NotCoalesced ==
    \A i \in Renewing :
        /\ reqs[i].nRefresh = 1
        /\ Cardinality(RefreshCallsOf(i)) = 1
        /\ \A j \in Renewing : j # i => RefreshCallsOf(i) \cap RefreshCallsOf(j) = {}

\* request i is re-issued in this step while request j still waits for its
\* own refresh call
ReissuedBeside(i, j) ==
    /\ i # j
    /\ i \in Renewing
    /\ j \in Renewing
    /\ reqs'[i].phase = "sent"
    /\ reqs'[i].nResend = reqs[i].nResend + 1

\* C21: when several in-flight requests are answered 403 before any of them
\* has completed its renewal, each has a refresh call of its own (they are not
\* coalesced) and each is re-issued carrying the access token its own refresh
\* call returned.
C21_ConcurrentRenewals ==
    /\ []C21_NotCoalesced
    /\ [][\A i, j \in Slots :
             ReissuedBeside(i, j)
             => /\ \E f \in RefreshCallsOf(i) :
                      refresh(Outcome("refresh", NoHeader, reqs[f].body, "none")).token
                          = reqs'[i].explicit
                /\ reqs'[i].hdr = reqs'[i].explicit]_vars

\* two requests wait for their renewals at the same time
C21_TwoRenewing == Cardinality(Renewing) < 2

-----------------------------------------------------------------------------
(* Properties of the request interceptor *)

\* slot i holds a request that this step sent for the first time
NewlySent(i) ==
    /\ reqs[i] = FreeSlot
    /\ reqs'[i] # FreeSlot

\* the request in slot i is sent again by this step, after its renewal
Reissued(i) ==
    /\ reqs[i].phase = "refreshing"
    /\ reqs'[i].phase = "sent"

\* C22: every request goes out with the access token the session state holds
\* at the moment it is sent, and with no Authorization header when the state
\* holds none. Checked of the requests the context functions send once the
\* page has rendered the current state, and of the request the interceptor
\* sends again right after its renewal.
C22_CarriesCurrentToken ==
    [][\A i \in Slots :
          ((NewlySent(i) /\ view = state) \/ Reissued(i))
          => reqs'[i].hdr = state'.token]_vars

-----------------------------------------------------------------------------
(* Properties of the client logout *)

\* the POST /auth/logout calls of logout(), while they are in flight
LogoutCalls == {i \in InFlight : reqs[i].caller.type = "logout"}

\* the session state LOGOUT leaves
IsLoggedOut(st) ==
    /\ st.user = NoUser
    /\ st.token = NullToken
    /\ st.refreshToken = NullToken
    /\ ~st.isAuthenticated
    /\ st.error = ""

\* a logout() whose server call settled, resolved or rejected, has removed both
\* persisted keys and left the session in the Logout state
C23_LogoutOutcome ==
    (\E k \in 1..Len(settled) : settled[k].caller = "logout")
    => (ls = NoStorage /\ IsLoggedOut(state))

\* C23: client logout always ends with both persisted keys removed and the
\* session in the Logout state, whether the server call succeeds or fails:
\* besides the outcome above, a logout call that waits for its refresh call
\* waits for a call the server can still answer, so that the answer lets
\* logout() reach its finally block.
C23_LogoutEnds ==
    /\ C23_LogoutOutcome
    /\ \A i \in LogoutCalls :
          reqs[i].phase = "refreshing"
          => \A j \in RefreshCallsOf(i) : reqs[j].phase = "sent"

-----------------------------------------------------------------------------
(* Properties of the loading flag *)

\* the login and register calls in flight
AuthCalls == {i \in InFlight : reqs[i].caller.type \in {"login", "register"}}

\* C24: loading is true only while the bootstrap has not finished or a login or
\* register call is in flight; such a call is never held back by a renewal,
\* and when it settles the session is in the Success or the Failure state
\* with loading false.
C24_LoadingOnlyWhileBusy ==
    /\ state.isLoading
       => (boot = "pending" \/ BootstrapCalls # {} \/ AuthCalls # {})
    /\ \A i \in AuthCalls : reqs[i].phase = "sent" /\ reqs[i].n403 = 0
    /\ \A k \in 1..Len(settled) :
          settled[k].caller \in {"login", "register"}
          => /\ ~state.isLoading
             /\ IF settled[k].result = "resolved"
                THEN state.isAuthenticated /\ state.error = ""
                ELSE ~state.isAuthenticated /\ state.error # ""

\* a login was answered with a failure and loading is false again
C24_Witness ==
    /\ \E k \in 1..Len(settled) :
          settled[k].caller = "login" /\ settled[k].result = "rejected"
    /\ ~state.isLoading
    /\ AuthCalls = {}

-----------------------------------------------------------------------------
(* Properties of the response bodies (SpecEndpoints) *)

\* C25: no response of register, login, me or the profile endpoint carries the
\* identity's password hash, and the identity the mandatory middleware attaches
\* to the request has no password field.
C25_NoPasswordLeaves ==
    /\ last.op \in {"register", "login", "me", "profile"}
       => "password" \notin DOMAIN last.user
    /\ "password" \notin DOMAIN last.reqUser

\* me was answered with the identity the middleware attached, whose stored
\* document holds a password hash
C25_Witness ==
    /\ last.op = "me"
    /\ last.status = 200
    /\ last.user # NoUser
    /\ last.reqUser # NoUser
    /\ users[last.reqUser.id].password.alg = "bcrypt"

-----------------------------------------------------------------------------
(* The outcomes of the mandatory middleware (SpecMiddleware) *)

\* what jwt.verify makes of the token of request o
Verified(o) == jwtVerify(ExtractToken(o.hdr), JWT_SECRET)

\* C26: a request through authenticateToken ends in exactly one of six
\* outcomes: forwarded, NO_TOKEN (401), INVALID_TOKEN (403), TOKEN_EXPIRED
\* (403), INVALID_USER (401: verified, subject not in the store) or
\* AUTH_SERVER_ERROR (500: the store lookup faults); it never both responds
\* and forwards, and never forwards after a failure.
C26_SixOutcomes ==
    \* the clock and the store are those the request was handled with
    (last.op = "authenticateToken" /\ last.at = now /\ last.nUsers = Len(users))
    => /\ last.responses + last.nextCalls = 1
       /\ IF IsFalsy(ExtractToken(last.hdr))
          THEN last.status = 401 /\ last.error = "NO_TOKEN"
          ELSE IF Verified(last).threw
          THEN /\ last.status = 403
               /\ last.error \in {"INVALID_TOKEN", "TOKEN_EXPIRED"}
               /\ last.error = "TOKEN_EXPIRED" <=> Verified(last).name = "TokenExpiredError"
          ELSE IF last.fault \in LookupFaults
          THEN last.status = 500 /\ last.error = "AUTH_SERVER_ERROR"
          ELSE IF findById(Verified(last).userId) = NoUser
          THEN last.status = 401 /\ last.error = "INVALID_USER"
          ELSE /\ last.nextCalls = 1
               /\ last.reqUser.id = Verified(last).userId
       /\ last.nextCalls = 1 => (last.status = 0 /\ last.error = "")

\* a verified token whose subject is not in the store was answered 401
C26_Witness ==
    /\ last.op = "authenticateToken"
    /\ last.at = now
    /\ last.nUsers = Len(users)
    /\ ~Verified(last).threw
    /\ last.error = "INVALID_USER"
    /\ last.status = 401
    /\ last.nextCalls = 0

-----------------------------------------------------------------------------
(* The frame of POST /login (SpecEndpoints) *)

\* a step in which the server handles a login request
LoginHandled == last'.op = "login" /\ now' = now

\* the tokens of the answer are an access and a refresh token for identity id
IssuedFor(o, id) ==
    /\ o.token = Tok(JWT_SECRET, id, o.at + AccessLifetime)
    /\ o.refreshToken = Tok(JWT_REFRESH_SECRET, id, o.at + RefreshLifetime)

\* a login that fails with MissingFields or InvalidCredentials issues no token
\* and leaves every identity unchanged
FailedLoginFrame ==
    last'.error \in {"MISSING_FIELDS", "INVALID_CREDENTIALS"}
    => /\ last'.token = NullToken
       /\ last'.refreshToken = NullToken
       /\ users' = users

\* C27 as stated: a successful login issues both tokens for the identity
\* matching the email and changes nothing of the store but that identity's
\* last-login timestamp.
C27_LoginFrame ==
    [][LoginHandled
       => /\ last'.status = 200
             => /\ findByEmail(last'.body.email) # NoUser
                /\ IssuedFor(last', findByEmail(last'.body.email).id)
                /\ users' = [users EXCEPT ![findByEmail(last'.body.email).id].lastLoginAt = now]
          /\ FailedLoginFrame]_vars

\* C27, amended: the save of a successful login also sets the identity's
\* update timestamp; nothing else of the store changes.
C27_LoginFrameWithUpdatedAt ==
    [][LoginHandled
       => /\ last'.status = 200
             => /\ findByEmail(last'.body.email) # NoUser
                /\ IssuedFor(last', findByEmail(last'.body.email).id)
                /\ users' = [users EXCEPT
                                ![findByEmail(last'.body.email).id].lastLoginAt = now,
                                ![findByEmail(last'.body.email).id].updatedAt = now]
          /\ FailedLoginFrame]_vars

\* the second of two identities logged in a week after registering: its two
\* timestamps moved, the other identity is as it was
C27_Witness ==
    /\ last.op = "login"
    /\ last.status = 200
    /\ last.at = now
    /\ Len(users) = 2
    /\ last.token.userId = 2
    /\ users[2].lastLoginAt = now
    /\ users[2].updatedAt = now
    /\ users[1].updatedAt < now

-----------------------------------------------------------------------------
(* The frame of the reducer transitions (SpecReducer) *)

\* st and n agree on every field of the session state but those in changed
SameBut(st, n, changed) ==
    /\ DOMAIN n = DOMAIN st
    /\ \A f \in DOMAIN st \ changed : n[f] = st[f]

\* user n is user u with the partial merged into it
Merged(u, partial, n) ==
    /\ \A f \in DOMAIN partial : n[f] = partial[f]
    /\ u # NoUser => /\ DOMAIN n = DOMAIN u \cup DOMAIN partial
                     /\ \A f \in DOMAIN u \ DOMAIN partial : n[f] = u[f]
    /\ u = NoUser => DOMAIN n = DOMAIN partial

\* C28: UPDATE_USER changes only user, merging the partial into it; CLEAR_ERROR
\* changes only error; SET_LOADING changes only isLoading; AUTH_START changes
\* only isLoading and error.
C28_ReducerFrames ==
    \A action \in ReducerActions :
        LET n == authReducer(state, action) IN
        /\ action.type = "UPDATE_USER"
           => /\ SameBut(state, n, {"user"})
              /\ Merged(state.user, action.payload, n.user)
        /\ action.type = "CLEAR_ERROR"
           => /\ SameBut(state, n, {"error"})
              /\ n.error = ""
        /\ action.type = "SET_LOADING"
           => /\ SameBut(state, n, {"isLoading"})
              /\ n.isLoading = action.payload
        /\ action.type = "AUTH_START"
           => /\ SameBut(state, n, {"isLoading", "error"})
              /\ n.isLoading
              /\ n.error = ""

\* UPDATE_USER has renamed the identity of a session that is loading and holds
\* an error: the last-login field of the identity and the rest of the state
\* are as before
C28_Witness ==
    /\ state.user = [id |-> 1, email |-> "a@b.com", name |-> "Bo", lastLoginAt |-> 0]
    /\ state.isLoading
    /\ state.error = "Login failed"
    /\ ~state.isAuthenticated

-----------------------------------------------------------------------------
(* The client login and register (SpecClient) *)

\* the login or register call in slot i settles in this step
AuthCallSettles(i) ==
    /\ i \in AuthCalls
    /\ reqs'[i] # reqs[i]

\* the response that settles it: none at all when the network failed
AnswerTo(i) == IF settled'[1].status = 0 THEN NetworkError ELSE serve(reqs[i]).o

DefaultMessage(i) ==
    IF reqs[i].caller.type = "login" THEN "Login failed" ELSE "Registration failed"

\* C29: login() and register() dispatch AUTH_START and send their one request;
\* on a successful response they store both tokens and dispatch AUTH_SUCCESS
\* with the identity and tokens of the response, returning {success: true};
\* on a failure they dispatch AUTH_FAILURE with the message of the response,
\* or their default when there is none, and return {success: false, error}
\* with that same message.
C29_LoginRegisterProtocol ==
    [][\A i \in Slots :
          /\ (NewlySent(i) /\ reqs'[i].caller.type \in {"login", "register"})
             => /\ state' = authReducer(state, Action("AUTH_START", ""))
                /\ ls' = ls
          /\ AuthCallSettles(i)
             => /\ Len(settled') = 1
                /\ IF settled'[1].status \in 200..299
                   THEN /\ ls' = [token |-> AnswerTo(i).token,
                                   refreshToken |-> AnswerTo(i).refreshToken]
                        /\ state' = authReducer(state,
                                        Action("AUTH_SUCCESS",
                                               [user |-> AnswerTo(i).user,
                                                token |-> AnswerTo(i).token,
                                                refreshToken |-> AnswerTo(i).refreshToken]))
                        /\ settled'[1].returned = [success |-> TRUE, error |-> ""]
                   ELSE LET message == IF AnswerTo(i).message # ""
                                       THEN AnswerTo(i).message ELSE DefaultMessage(i)
                        IN /\ ls' = ls
                           /\ state' = authReducer(state, Action("AUTH_FAILURE", message))
                           /\ settled'[1].returned = [success |-> FALSE, error |-> message]]_vars

\* a login was refused by the server and the session shows the server's message
C29_Witness ==
    /\ Len(settled) = 1
    /\ settled[1].caller = "login"
    /\ settled[1].status = 401
    /\ settled[1].returned = [success |-> FALSE, error |-> "Invalid email or password"]
    /\ state.error = "Invalid email or password"

-----------------------------------------------------------------------------
(* Collaborator faults (SpecEndpoints) *)

\* a step in which the server handles a request during which the store faults
FaultHandled ==
    /\ last'.op \in {"register", "login", "authenticateToken"}
    /\ last'.fault # "none"
    /\ now' = now

\* what the handler would have answered had the store not faulted
WithoutFault(o) ==
    LET clean == Outcome(o.op, o.hdr, o.body, "none") IN
    CASE o.op = "register" -> register(clean, 1).o
      [] o.op = "login" -> login(clean).o
      [] o.op = "authenticateToken" -> authenticateToken(clean)

\* the handler got as far as the call that faults: a lookup that faults was
\* issued, a save that faults was the last thing before the answer
FaultReached(o) ==
    IF o.fault \in {"findByEmail"} \cup LookupFaults
    THEN WithoutFault(o).lookups >= 1
    ELSE WithoutFault(o).status \in {200, 201}

FixedError(op) ==
    CASE op = "register" -> "REGISTRATION_ERROR"
      [] op = "login" -> "LOGIN_ERROR"
      [] op = "authenticateToken" -> "AUTH_SERVER_ERROR"

FixedMessage(op) ==
    CASE op = "register" -> "Server error during registration"
      [] op = "login" -> "Server error during login"
      [] op = "authenticateToken" -> "Server error during authentication"

-----------------------------------------------------------------------------
(* The document history (SpecHistory) *)

\* a step in which the middleware forwarded a POST /document-history
DocumentAdded ==
    /\ last'.op = "documentHistory"
    /\ last'.nextCalls = 1
    /\ last' # last

\* history n is the last entries of history h, at most limit of them
MostRecent(h, n, limit) ==
    /\ Len(n) = (IF Len(h) > limit THEN limit ELSE Len(h))
    /\ \A k \in 1..Len(n) : n[k] = h[k + (Len(h) - Len(n))]

\* C31: a history never holds more than 50 entries; adding a document leaves
\* the most recent 50 in insertion order, and leaves the history as it was
\* when the identity's saveHistory preference is false.
C31_HistoryBounded ==
    /\ [](\A u \in 1..Len(users) :
            /\ Len(users[u].documentHistory) <= HistoryLimit
            /\ \A k \in 1..(Len(users[u].documentHistory) - 1) :
                  users[u].documentHistory[k].id < users[u].documentHistory[k + 1].id)
    /\ [][DocumentAdded
           => LET u == last'.reqUser.id IN
              IF users[u].preferences.saveHistory
              THEN MostRecent(Append(users[u].documentHistory, last'.body.document),
                              users'[u].documentHistory, HistoryLimit)
              ELSE users'[u].documentHistory = users[u].documentHistory]_vars

\* the history is full and its oldest entries have been dropped
C31_Witness ==
    /\ Len(users[1].documentHistory) = HistoryLimit
    /\ users[1].documentHistory[1].id > 1
    /\ last.op = "documentHistory"
    /\ last.status = 200

-----------------------------------------------------------------------------
(* Termination of the renewal path (SpecClient) *)

\* C32: every request settles after finitely many network calls: a refresh
\* call that is answered 403 rejects without making a refresh call of its
\* own, so that the request waiting for it settles as well.
C32_RefreshNotRefreshed ==
    \A i \in RefreshCalls :
        /\ reqs[i].nRefresh = 0
        /\ reqs[i].phase = "sent"
        /\ RefreshCallsOf(i) = {}

-----------------------------------------------------------------------------
(* After a logout (SpecSession) *)

\* the logout is complete: LOGOUT applied and both persisted keys removed
LoggedOut == IsLoggedOut(state) /\ ls = NoStorage

\* this step settles a login, a register or the bootstrap with success
FreshAuthentication ==
    \E k \in 1..Len(settled') :
        /\ settled'[k].caller \in {"login", "register", "checkAuthStatus"}
        /\ settled'[k].result = "resolved"

\* C33: once a logout is complete the session stays unauthenticated and the
\* persisted keys stay absent until a login, a register or the bootstrap
\* succeeds; a refresh call that was in flight at the logout changes neither
\* when it resolves.
C33_LogoutSticks ==
    [][(LoggedOut /\ ~FreshAuthentication)
       => (~state'.isAuthenticated /\ ls' = NoStorage)]_vars

-----------------------------------------------------------------------------
(* Session state and persistent storage (SpecClient) *)

\* no client operation is in flight: the mount effect has run and no request
\* waits for an answer
Quiescent == boot = "done" /\ InFlight = {}

\* C34: whenever no client operation is in flight, the access and the refresh
\* token of the session state are the values stored under the two persistent
\* keys, both absent when the state holds null.
C34_StateMatchesStorage ==
    Quiescent => (state.token = ls.token /\ state.refreshToken = ls.refreshToken)

-----------------------------------------------------------------------------
(* The frame of a renewal (SpecClient) *)

\* this step applies a renewal: a refresh call resolved
Renewed ==
    \E k \in 1..Len(settled') :
        /\ settled'[k].caller = "refreshOf"
        /\ settled'[k].result = "resolved"

\* C35: a successful renewal changes only the access token of the session
\* state: user, refreshToken, isAuthenticated, isLoading and error keep the
\* values they had right before the renewal was applied.
C35_RenewalChangesTokenOnly ==
    [][Renewed => SameBut(state, state', {"token"})]_vars

-----------------------------------------------------------------------------
(* Register answered with an error (SpecEndpoints) *)

\* a step in which the server handles a register request
RegisterHandled == last'.op = "register" /\ now' = now

\* C36: a register request that is answered with an error (4xx or 5xx) has
\* created no identity: the store is as it was before the request.
C36_FailedRegisterCreatesNothing ==
    [][(RegisterHandled /\ last'.status >= 400) => users' = users]_vars

-----------------------------------------------------------------------------
(* The subjects of issued tokens (SpecMiddleware) *)

\* token t names an identity of the store
Existing(t) == t.userId \in 1..Len(users)

====
